---- MODULE Spec2Model ----
(***************************************************************************)
(* Model of src/utils.rs of beacon-verifier: url_join, replace_vars,       *)
(* ping_url, get_ids and valid_schema.                                     *)
(*                                                                         *)
(* Strings are sequences of one-character strings.  A Url is the parsed    *)
(* form kept by the url crate: scheme, userinfo, host, path and query.     *)
(* Its serialization starts with three atoms (scheme, userinfo, host)      *)
(* followed by the characters of the path and, after "?", of the query.    *)
(***************************************************************************)
EXTENDS Integers, Sequences, FiniteSets

VARIABLES
    op,         \* SpecUrl / SpecSchema: the function called ("none" in SpecProbe)
    url1,       \* url_join: root url argument
    url2,       \* url_join: relative url argument
    joined,     \* url_join: returned Url
    tmpl,       \* replace_vars: the raw text the url argument was parsed from
    url,        \* replace_vars: url argument
    done,       \* SpecUrl / SpecSchema: the call has returned
    bindings,   \* replace_vars: vars argument
    replaced,   \* replace_vars: returned Url
    pc,         \* SpecProbe: position inside get_ids / ping_url
    root_url,   \* get_ids: root_url argument
    entity_url, \* get_ids: entity_url argument
    endpoint_url, \* get_ids: the joined url handed to ping_url
    requests,   \* the requests sent so far, each with what send() returned
    response,   \* ping_url: what the last send() returned
    body,       \* what response.json() read from the last response
    ping,       \* ping_url: returned Result
    ids,        \* get_ids: how the call ended (a Vec or a panic)
    json_schema, \* valid_schema: the compiled schema
    instance,   \* valid_schema: the instance argument
    errors,     \* valid_schema: what json_schema.validate(instance) yielded
    outcome     \* valid_schema: returned Result

urlVars == <<op, done, url1, url2, joined, tmpl, url, bindings, replaced>>
probeVars == <<pc, root_url, entity_url, endpoint_url, requests, response, body, ping, ids>>
schemaVars == <<json_schema, instance, errors, outcome>>
vars == <<urlVars, probeVars, schemaVars>>

----------------------------------------------------------------------------
(* Bounds *)
MaxSegs == 2         \* path segments of a generated URL
MaxBindings == 2     \* length of the vars list given to replace_vars
MaxResultSets == 2   \* elements of a served resultSets array
MaxInstances == 3    \* total size of the result sets of a served response
MaxProps == 2        \* properties a schema constrains

----------------------------------------------------------------------------
(* Generic sequence helpers *)

RECURSIVE Flatten(_)
Flatten(ss) == IF ss = <<>> THEN <<>> ELSE Head(ss) \o Flatten(Tail(ss))

StartsWith(s, p) == Len(s) >= Len(p) /\ SubSeq(s, 1, Len(p)) = p

Drop(s, n) == SubSeq(s, n + 1, Len(s))

\* Split s at every occurrence of the character c ("a/b/" -> a, b, "").
RECURSIVE Split(_, _)
Split(s, c) ==
    IF \A i \in 1..Len(s) : s[i] # c THEN <<s>>
    ELSE LET i == CHOOSE j \in 1..Len(s) : s[j] = c /\ \A k \in 1..(j - 1) : s[k] # c
         IN <<SubSeq(s, 1, i - 1)>> \o Split(Drop(s, i), c)

\* Segments joined with "/" between them.
RECURSIVE JoinSlash(_)
JoinSlash(segs) ==
    IF segs = <<>> THEN <<>>
    ELSE IF Len(segs) = 1 THEN segs[1]
    ELSE segs[1] \o <<"/">> \o JoinSlash(Tail(segs))

----------------------------------------------------------------------------
(* url crate: Url::parse, Url::to_string, Url::path, Url::set_path *)

\* Percent-encoding of one character of a path (path percent-encode set).
EncodePathChar(c) ==
    IF c = " " THEN <<"%", "2", "0">>
    ELSE IF c = "{" THEN <<"%", "7", "B">>
    ELSE IF c = "}" THEN <<"%", "7", "D">>
    ELSE <<c>>

\* Percent-encoding of one character of a query (braces are left alone).
EncodeQueryChar(c) == IF c = " " THEN <<"%", "2", "0">> ELSE <<c>>

EncodePath(s) == Flatten([i \in 1..Len(s) |-> EncodePathChar(s[i])])
EncodeQuery(s) == Flatten([i \in 1..Len(s) |-> EncodeQueryChar(s[i])])

\* Dot-segment removal over the segments of a path, left to right.
RECURSIVE NormSegs(_, _)
NormSegs(segs, acc) ==
    IF segs = <<>> THEN acc
    ELSE LET seg == Head(segs)
             last == Len(segs) = 1
             popped == IF acc = <<>> THEN acc ELSE SubSeq(acc, 1, Len(acc) - 1)
         IN IF seg = <<".", ".">>
              THEN NormSegs(Tail(segs), IF last THEN Append(popped, <<>>) ELSE popped)
            ELSE IF seg = <<".">>
              THEN NormSegs(Tail(segs), IF last THEN Append(acc, <<>>) ELSE acc)
            ELSE NormSegs(Tail(segs), Append(acc, EncodePath(seg)))

\* The path a special-scheme Url stores for the raw path text p.
NormPath(p) ==
    LET segs == Split(IF StartsWith(p, <<"/">>) THEN Drop(p, 1) ELSE p, "/")
    IN <<"/">> \o JoinSlash(NormSegs(segs, <<>>))

\* Url::to_string (Display for Url)
to_string(u) ==
    <<u.scheme, u.userinfo, u.host>> \o u.path
        \o (IF u.hasQuery THEN <<"?">> \o u.query ELSE <<>>)

\* Url::parse of a serialization
UrlParse(s) ==
    LET rest == Drop(s, 3)
        parts == Split(rest, "?")
        q == Drop(rest, Len(parts[1]) + 1)
    IN [scheme |-> s[1], userinfo |-> s[2], host |-> s[3],
        path |-> NormPath(parts[1]),
        hasQuery |-> Len(parts) > 1,
        query |-> IF Len(parts) > 1 THEN EncodeQuery(q) ELSE <<>>]

\* Url::set_path
SetPath(u, p) == [u EXCEPT !.path = NormPath(p)]

----------------------------------------------------------------------------
(* std::path: Path::components and the collect into a PathBuf *)

RootDir == <<"/">>

\* Path::components (Unix): the root, then the non-empty, non-"." names.
Components(p) ==
    LET hasRoot == StartsWith(p, <<"/">>)
        names == Split(IF hasRoot THEN Drop(p, 1) ELSE p, "/")
        keep == SelectSeq(names, LAMBDA n : n # <<>> /\ n # <<".">>)
    IN (IF hasRoot THEN <<RootDir>> ELSE <<>>) \o keep

\* PathBuf::push
PathPush(buf, c) ==
    IF c = RootDir THEN c
    ELSE IF buf = <<>> THEN c
    ELSE IF buf[Len(buf)] = "/" THEN buf \o c
    ELSE buf \o <<"/">> \o c

\* FromIterator for PathBuf
RECURSIVE Collect(_, _)
Collect(comps, buf) ==
    IF comps = <<>> THEN buf ELSE Collect(Tail(comps), PathPush(buf, Head(comps)))

\* url_join
url_join(u1, u2) ==
    LET new_path == Collect(Components(u1.path) \o Drop(Components(u2.path), 1), <<>>)
    IN SetPath(u1, new_path)

----------------------------------------------------------------------------
(* replace_vars *)

\* format!("%7B{}%7D", var_key)
Placeholder(var_key) == <<"%", "7", "B">> \o var_key \o <<"%", "7", "D">>

\* str::replacen(pat, to, 1): only the first match is rewritten.
RECURSIVE StrReplaceFirst(_, _, _)
StrReplaceFirst(s, pat, to) ==
    IF Len(s) < Len(pat) THEN s
    ELSE IF StartsWith(s, pat) THEN to \o Drop(s, Len(pat))
    ELSE <<Head(s)>> \o StrReplaceFirst(Tail(s), pat, to)

\* str::replace: every non-overlapping match, left to right
RECURSIVE StrReplace(_, _, _)
StrReplace(s, pat, to) ==
    IF Len(s) < Len(pat) THEN s
    ELSE IF StartsWith(s, pat) THEN to \o StrReplace(Drop(s, Len(pat)), pat, to)
    ELSE <<Head(s)>> \o StrReplace(Tail(s), pat, to)

\* The string the loop hands on to the next iteration.
LoopStep(url_string, original, binding) ==
    StrReplace(original, Placeholder(binding[1]), binding[2])

RECURSIVE ReplaceLoop(_, _, _)
ReplaceLoop(url_string, original, vs) ==
    IF vs = <<>> THEN url_string
    ELSE ReplaceLoop(LoopStep(url_string, original, Head(vs)), original, Tail(vs))

replace_vars(u, vs) == UrlParse(ReplaceLoop(to_string(u), to_string(u), vs))

----------------------------------------------------------------------------
(* Inputs of the URL functions *)

NoUrl == [scheme |-> "", userinfo |-> "", host |-> "", path |-> <<>>,
          hasQuery |-> FALSE, query |-> <<>>]

\* All sequences over S of length at most n.
SeqsUpTo(S, n) == UNION {[1..k -> S] : k \in 0..n}

\* Raw paths: "/" followed by up to MaxSegs segments, with or without a
\* trailing slash ("/", "/a", "/a/", "/a/b", "/a/b/", ...).
JoinSegChoices == {<<"a">>, <<"b">>}
RawPaths ==
    {<<"/">> \o JoinSlash(segs) \o t :
        segs \in SeqsUpTo(JoinSegChoices, MaxSegs), t \in {<<>>, <<"/">>}}
    \ {<<"/", "/">>}

Roots ==
    {UrlParse(<<"https", ui, "h">> \o p \o q) :
        ui \in {"", "u:p"}, p \in RawPaths, q \in {<<>>, <<"?", "k">>}}

Relatives == {UrlParse(<<"https", "", "h">> \o p) : p \in RawPaths}

\* A template is the text a caller writes: path segments made of pieces, a
\* piece being literal text or a placeholder {name}.
Lit(t) == [ph |-> FALSE, text |-> t]
Hole(n) == [ph |-> TRUE, text |-> n]
Names == {<<"i">>, <<"j">>, <<"k">>}
TmplSegChoices ==
    {<<Lit(<<"a">>)>>, <<Hole(<<"i">>)>>, <<Hole(<<"j">>)>>,
     <<Lit(<<"a">>), Hole(<<"i">>)>>}
Templates == SeqsUpTo(TmplSegChoices, MaxSegs)

RawPiece(p) == IF p.ph THEN <<"{">> \o p.text \o <<"}">> ELSE p.text
RawSeg(seg) == Flatten([i \in 1..Len(seg) |-> RawPiece(seg[i])])
RawText(t) ==
    <<"https", "", "h", "/">> \o JoinSlash([i \in 1..Len(t) |-> RawSeg(t[i])])

PlainValues == {<<"4", "2">>, <<"7">>}
Values == PlainValues \cup {<<"a", " ">>, <<".", ".">>}
\* Lists of bindings, no name bound twice.
BindingLists ==
    {vs \in SeqsUpTo(Names \X Values, MaxBindings) :
        \A m, n \in 1..Len(vs) : m # n => vs[m][1] # vs[n][1]}

----------------------------------------------------------------------------
(* serde_json::Value *)

JNull == [k |-> "null", s |-> "", items |-> <<>>]
JNum(n) == [k |-> "number", s |-> n, items |-> <<>>]
JStr(x) == [k |-> "string", s |-> x, items |-> <<>>]
JArr(vals) ==
    [k |-> "array", s |-> "",
     items |-> [i \in 1..Len(vals) |-> [key |-> "", val |-> vals[i]]]]
\* An object from a sequence of <<key, value>> pairs with distinct keys.
JObj(pairs) ==
    [k |-> "object", s |-> "",
     items |-> [i \in 1..Len(pairs) |-> [key |-> pairs[i][1], val |-> pairs[i][2]]]]

\* Value::as_object / as_array / as_str succeed
IsObject(v) == v.k = "object"
IsArray(v) == v.k = "array"
IsString(v) == v.k = "string"

\* Map::get
HasKey(v, key) == \E i \in 1..Len(v.items) : v.items[i].key = key
Get(v, key) == v.items[CHOOSE i \in 1..Len(v.items) : v.items[i].key = key].val

\* Index<&str> for Value: Null for a missing key or a non-object
Index(v, key) == IF IsObject(v) /\ HasKey(v, key) THEN Get(v, key) ELSE JNull

\* The elements of an array value
Elements(v) == [i \in 1..Len(v.items) |-> v.items[i].val]

----------------------------------------------------------------------------
(* ping_url *)

MethodNotAllowed == 405

\* StatusCode::is_success
is_success(status) == 200 <= status /\ status < 300

Statuses == {200, 299, 304, 404, MethodNotAllowed, 500}

\* What send() can return: a Response with a status, or an Err(e).
SendOutcomes ==
    {[ok |-> TRUE, status |-> st, is_status |-> FALSE] : st \in Statuses}
    \cup {[ok |-> FALSE, status |-> 0, is_status |-> b] : b \in BOOLEAN}
NoResponse == [ok |-> FALSE, status |-> 0, is_status |-> FALSE]

Ok(json) == [ok |-> TRUE, json |-> json, err |-> "", url |-> NoUrl]
Err(e, u) == [ok |-> FALSE, json |-> JNull, err |-> e, url |-> u]
NoResult == [ok |-> FALSE, json |-> JNull, err |-> "", url |-> NoUrl]

\* The first match arm on a non-success Response: retry with POST?
FallsBackAnyErrorStatus(resp) == resp.status >= 400
FallsBackToPost(resp) == resp.status = MethodNotAllowed

\* The arms of the match on the GET for an Err(e)
GetTransportError(e) ==
    IF e.is_status THEN Err("BadStatus", NoUrl) ELSE Err("RequestError", NoUrl)

\* The arms of the match on the POST that return early
PostFailureAlwaysUnresponsive(resp, u) == Err("UnresponsiveEndpoint", u)
PostFailure(resp, u) ==
    IF resp.ok THEN Err("UnresponsiveEndpoint", u) ELSE Err("RequestError", NoUrl)

\* A body that is no JSON text
NotJson == [k |-> "notjson", s |-> "", items |-> <<>>]

\* response.json() and the match on it
JsonResult(b) == IF b = NotJson THEN Err("ResponseIsNotJson", NoUrl) ELSE Ok(b)

----------------------------------------------------------------------------
(* get_ids *)

Vec(v) == [panic |-> FALSE, msg |-> "", ids |-> v]
Panic(m) == [panic |-> TRUE, msg |-> m, ids |-> <<>>]
NoOutcome == [panic |-> FALSE, msg |-> "pending", ids |-> <<>>]

\* The closure mapped over the results: id, else variantInternalId, else
\* cohortId, each only if it is a string; unwrap of None panics.
InstanceIdSkipping(element) ==
    LET a == Index(element, "id")
        b == Index(element, "variantInternalId")
        c == Index(element, "cohortId")
    IN IF IsString(a) THEN Vec(<<a.s>>)
       ELSE IF IsString(b) THEN Vec(<<b.s>>)
       ELSE IF IsString(c) THEN Vec(<<c.s>>)
       ELSE Vec(<<>>)
InstanceIdCohortFirst(element) ==
    LET a == Index(element, "id")
        b == Index(element, "variantInternalId")
        c == Index(element, "cohortId")
    IN IF IsString(c) THEN Vec(<<c.s>>)
       ELSE IF IsString(b) THEN Vec(<<b.s>>)
       ELSE IF IsString(a) THEN Vec(<<a.s>>)
       ELSE Panic("called Option::unwrap() on a None value")
InstanceId(element) ==
    LET a == Index(element, "id")
        b == Index(element, "variantInternalId")
        c == Index(element, "cohortId")
    IN IF IsString(a) THEN Vec(<<a.s>>)
       ELSE IF IsString(b) THEN Vec(<<b.s>>)
       ELSE IF IsString(c) THEN Vec(<<c.s>>)
       ELSE Panic("called Option::unwrap() on a None value")

\* Outcomes in iteration order: the first panic ends the collect.
RECURSIVE Chain(_)
Chain(outs) ==
    IF outs = <<>> THEN Vec(<<>>)
    ELSE IF Head(outs).panic THEN Head(outs)
    ELSE LET t == Chain(Tail(outs))
         IN IF t.panic THEN t ELSE Vec(Head(outs).ids \o t.ids)

\* The closure given to flat_map
ResultSetIdsLenient(rs) ==
    IF ~IsObject(rs) \/ ~HasKey(rs, "results") \/ ~IsArray(Get(rs, "results"))
      THEN Vec(<<>>)
    ELSE LET results == Elements(Get(rs, "results"))
         IN Chain([i \in 1..Len(results) |-> InstanceId(results[i])])
ResultSetIds(rs) ==
    IF ~IsObject(rs)
      THEN Panic("resultSet inside 'resultSets' property is not an object")
    ELSE IF ~HasKey(rs, "results") THEN Panic("No 'results' property was found")
    ELSE IF ~IsArray(Get(rs, "results")) THEN Panic("'results' property is not an array")
    ELSE LET results == Elements(Get(rs, "results"))
         IN Chain([i \in 1..Len(results) |-> InstanceId(results[i])])

\* The Ok arm of the match on ping_url
Navigate(json) ==
    IF ~IsObject(json) THEN Panic("JSON is not an object")
    ELSE IF ~HasKey(json, "response") THEN Panic("No 'response' property was found")
    ELSE IF ~IsObject(Get(json, "response")) THEN Panic("'response' is not an object")
    ELSE IF ~HasKey(Get(json, "response"), "resultSets")
      THEN Panic("No 'resultSets' property was found")
    ELSE IF ~IsArray(Get(Get(json, "response"), "resultSets"))
      THEN Panic("'resultSets' property is not an array")
    ELSE LET sets == Elements(Get(Get(json, "response"), "resultSets"))
         IN Chain([i \in 1..Len(sets) |-> ResultSetIds(sets[i])])

\* The Err arm of the match on ping_url
OnProbeErrorPropagates(e) == Panic(e.err)
OnProbeError(e) == Vec(<<>>)

get_ids_match(r) == IF r.ok THEN Navigate(r.json) ELSE OnProbeError(r)

----------------------------------------------------------------------------
(* Responses an endpoint may serve *)

Instances ==
    {JObj(<< <<"id", JStr("a")>>, <<"variantInternalId", JStr("b")>> >>),
     JObj(<< <<"id", JNum("5")>>, <<"variantInternalId", JStr("b")>>,
             <<"cohortId", JStr("c")>> >>),
     JObj(<< <<"cohortId", JStr("c")>> >>),
     JObj(<< <<"id", JNum("5")>>, <<"name", JStr("n")>> >>)}

BadResultSets ==
    {JNum("5"), JObj(<< <<"count", JNum("5")>> >>), JObj(<< <<"results", JStr("a")>> >>)}

ResultSetOf(results) == JObj(<< <<"results", JArr(results)>> >>)

\* The result sets of size n: n results, or a malformed set counted as one.
ResultSetsOfSize(n) ==
    {ResultSetOf(r) : r \in [1..n -> Instances]}
    \cup (IF n = 1 THEN BadResultSets ELSE {})

\* Sequences of exactly n result sets of total size at most budget.
RECURSIVE ResultSetSeqs(_, _)
ResultSetSeqs(n, budget) ==
    IF n = 0 THEN {<<>>}
    ELSE UNION {
            {<<rs>> \o rest :
                rs \in ResultSetsOfSize(size), rest \in ResultSetSeqs(n - 1, budget - size)} :
                    size \in 0..budget}

WithResultSets(sets) ==
    JObj(<< <<"response", JObj(<< <<"resultSets", JArr(sets)>> >>)>> >>)

BadShapes ==
    {JArr(<<>>), JStr("a"),
     JObj(<< <<"meta", JNull>> >>),
     JObj(<< <<"response", JArr(<<>>)>> >>),
     JObj(<< <<"response", JObj(<< <<"count", JNum("5")>> >>)>> >>),
     JObj(<< <<"response", JObj(<< <<"resultSets", JObj(<<>>)>> >>)>> >>)}

Bodies ==
    {WithResultSets(sets) :
        sets \in UNION {ResultSetSeqs(n, MaxInstances) : n \in 0..MaxResultSets}}
    \cup BadShapes

ProbeRoots == {UrlParse(<<"https", "u:p", "h", "/", "a", "p", "i">>)}
ProbeEntities ==
    {UrlParse(<<"https", "", "h", "/", "b">>)}

----------------------------------------------------------------------------
(* valid_schema and the jsonschema validator it calls *)

\* The properties a schema speaks of, in the order the validator visits them.
Props == SubSeq(<<"x", "y", "z", "w">>, 1, MaxProps)

\* A schema gives each property a type ("any" for none) and says whether it
\* is required; an instance gives each property a value or leaves it out.
PropSchemas == [type : {"any", "string", "integer"}, required : BOOLEAN]
Absent == [present |-> FALSE, type |-> "", text |-> ""]
PropValues ==
    {Absent,
     [present |-> TRUE, type |-> "integer", text |-> "5"],
     [present |-> TRUE, type |-> "string", text |-> "\"s\""]}
Schemas == [1..MaxProps -> PropSchemas]
SchemaInstances == [1..MaxProps -> PropValues]

Quoted(t) == IF t = "string" THEN "\"string\"" ELSE "\"integer\""
QuotedProp(i) == <<"\"", Props[i], "\"">>

\* ValidationError of the "type" keyword at property i
TypeError(sch, inst, i) ==
    [kind |-> "Type",
     message |-> <<inst[i].text, " is not of type ", Quoted(sch[i].type)>>,
     instance_path |-> <<"/", Props[i]>>]

\* ValidationError of the "required" keyword for property i
RequiredError(i) ==
    [kind |-> "Required",
     message |-> QuotedProp(i) \o <<" is a required property">>,
     instance_path |-> <<>>]

\* JSONSchema::validate: every violation, "properties" before "required"
validate(sch, inst) ==
    LET idx == [i \in 1..Len(sch) |-> i]
        badType == SelectSeq(idx, LAMBDA i :
                      inst[i].present /\ sch[i].type # "any" /\ inst[i].type # sch[i].type)
        missing == SelectSeq(idx, LAMBDA i : sch[i].required /\ ~inst[i].present)
    IN [n \in 1..Len(badType) |-> TypeError(sch, inst, badType[n])]
       \o [n \in 1..Len(missing) |-> RequiredError(missing[n])]

\* What the closure appends to er for one error
ReportEntry(e) == e.message \o <<"\n">>

\* The for_each over the errors
ReportFirstOnly(es) == ReportEntry(es[1])
Report(es) == Flatten([n \in 1..Len(es) |-> ReportEntry(es[n])])

Valid(inst) == [ok |-> TRUE, instance |-> inst, err |-> "", report |-> <<>>]
BadResponse(er) == [ok |-> FALSE, instance |-> <<>>, err |-> "BadResponse", report |-> er]
NoValidation == [ok |-> FALSE, instance |-> <<>>, err |-> "", report |-> <<>>]

valid_schema(es, inst) == IF es = <<>> THEN Valid(inst) ELSE BadResponse(Report(es))

SchemaUnused ==
    /\ json_schema = <<>> /\ instance = <<>> /\ errors = <<>> /\ outcome = NoValidation

----------------------------------------------------------------------------
(* SpecProbe: one call of get_ids, ping_url inside it step by step *)

UrlUnused ==
    /\ op = "none" /\ done = FALSE
    /\ url1 = NoUrl /\ url2 = NoUrl /\ joined = NoUrl
    /\ tmpl = <<>> /\ url = NoUrl /\ bindings = <<>> /\ replaced = NoUrl

ProbeUnused ==
    /\ pc = "unused"
    /\ root_url = NoUrl /\ entity_url = NoUrl /\ endpoint_url = NoUrl
    /\ requests = <<>> /\ response = NoResponse /\ body = JNull
    /\ ping = NoResult /\ ids = NoOutcome

Init ==
    /\ pc = "start"
    /\ root_url \in ProbeRoots
    /\ entity_url \in ProbeEntities
    /\ endpoint_url = NoUrl
    /\ requests = <<>>
    /\ response = NoResponse
    /\ body = JNull
    /\ ping = NoResult
    /\ ids = NoOutcome
    /\ UrlUnused
    /\ SchemaUnused

Sent(method, r) ==
    [method |-> method, url |-> endpoint_url, ok |-> r.ok, status |-> r.status]

\* get_ids, line 132
JoinUrls ==
    /\ pc = "start"
    /\ endpoint_url' = url_join(root_url, entity_url)
    /\ pc' = "get"
    /\ UNCHANGED <<root_url, entity_url, requests, response, body, ping, ids>>
    /\ UNCHANGED <<urlVars, schemaVars>>

\* client.get(endpoint_url).send()
SendGet ==
    /\ pc = "get"
    /\ \E r \in SendOutcomes :
          /\ response' = r
          /\ requests' = Append(requests, Sent("GET", r))
    /\ pc' = "get_match"
    /\ UNCHANGED <<root_url, entity_url, endpoint_url, body, ping, ids>>
    /\ UNCHANGED <<urlVars, schemaVars>>

\* the match on the GET
MatchGet ==
    /\ pc = "get_match"
    /\ IF response.ok /\ is_success(response.status)
         THEN pc' = "json" /\ ping' = ping
       ELSE IF response.ok /\ FallsBackToPost(response)
         THEN pc' = "post" /\ ping' = ping
       ELSE IF response.ok
         THEN pc' = "returned" /\ ping' = Err("UnresponsiveEndpoint", endpoint_url)
       ELSE pc' = "returned" /\ ping' = GetTransportError(response)
    /\ UNCHANGED <<root_url, entity_url, endpoint_url, requests, response, body, ids>>
    /\ UNCHANGED <<urlVars, schemaVars>>

\* client.post(endpoint_url).send()
SendPost ==
    /\ pc = "post"
    /\ \E r \in SendOutcomes :
          /\ response' = r
          /\ requests' = Append(requests, Sent("POST", r))
    /\ pc' = "post_match"
    /\ UNCHANGED <<root_url, entity_url, endpoint_url, body, ping, ids>>
    /\ UNCHANGED <<urlVars, schemaVars>>

\* the match on the POST
MatchPost ==
    /\ pc = "post_match"
    /\ IF response.ok /\ is_success(response.status)
         THEN pc' = "json" /\ ping' = ping
       ELSE pc' = "returned" /\ ping' = PostFailure(response, endpoint_url)
    /\ UNCHANGED <<root_url, entity_url, endpoint_url, requests, response, body, ids>>
    /\ UNCHANGED <<urlVars, schemaVars>>

\* response.json() on the successful response, and the return of ping_url
ReadJson ==
    /\ pc = "json"
    /\ \E b \in Bodies \cup {NotJson} :
          /\ body' = b
          /\ ping' = JsonResult(b)
    /\ pc' = "returned"
    /\ UNCHANGED <<root_url, entity_url, endpoint_url, requests, response, ids>>
    /\ UNCHANGED <<urlVars, schemaVars>>

\* the match of get_ids on what ping_url returned
GetIdsMatch ==
    /\ pc = "returned"
    /\ ids' = get_ids_match(ping)
    /\ pc' = "done"
    /\ UNCHANGED <<root_url, entity_url, endpoint_url, requests, response, body, ping>>
    /\ UNCHANGED <<urlVars, schemaVars>>

Next == JoinUrls \/ SendGet \/ MatchGet \/ SendPost \/ MatchPost \/ ReadJson \/ GetIdsMatch

Spec == Init /\ [][Next]_vars

----------------------------------------------------------------------------
(* SpecUrl: one call of url_join or of replace_vars on drawn arguments *)

InitUrl ==
    /\ done = FALSE
    /\ \/ /\ op = "url_join"
          /\ url1 \in Roots /\ url2 \in Relatives
          /\ tmpl = <<>> /\ url = NoUrl /\ bindings = <<>>
       \/ /\ op = "replace_vars"
          /\ tmpl \in Templates /\ url = UrlParse(RawText(tmpl))
          /\ bindings \in BindingLists
          /\ url1 = NoUrl /\ url2 = NoUrl
    /\ joined = NoUrl
    /\ replaced = NoUrl
    /\ ProbeUnused
    /\ SchemaUnused

UrlJoin ==
    /\ op = "url_join" /\ ~done
    /\ joined' = url_join(url1, url2)
    /\ done' = TRUE
    /\ UNCHANGED <<op, url1, url2, tmpl, url, bindings, replaced>>
    /\ UNCHANGED <<probeVars, schemaVars>>

ReplaceVars ==
    /\ op = "replace_vars" /\ ~done
    /\ replaced' = replace_vars(url, bindings)
    /\ done' = TRUE
    /\ UNCHANGED <<op, url1, url2, joined, tmpl, url, bindings>>
    /\ UNCHANGED <<probeVars, schemaVars>>

NextUrl == UrlJoin \/ ReplaceVars

SpecUrl == InitUrl /\ [][NextUrl]_vars

----------------------------------------------------------------------------
(* SpecSchema: one call of valid_schema on a drawn schema and instance *)

InitSchema ==
    /\ op = "valid_schema" /\ done = FALSE
    /\ json_schema \in Schemas
    /\ instance \in SchemaInstances
    /\ errors = <<>>
    /\ outcome = NoValidation
    /\ url1 = NoUrl /\ url2 = NoUrl /\ joined = NoUrl
    /\ tmpl = <<>> /\ url = NoUrl /\ bindings = <<>> /\ replaced = NoUrl
    /\ ProbeUnused

ValidSchema ==
    /\ op = "valid_schema" /\ ~done
    /\ errors' = validate(json_schema, instance)
    /\ outcome' = valid_schema(errors', instance)
    /\ done' = TRUE
    /\ UNCHANGED <<json_schema, instance>>
    /\ UNCHANGED <<op, url1, url2, joined, tmpl, url, bindings, replaced>>
    /\ UNCHANGED probeVars

NextSchema == ValidSchema

SpecSchema == InitSchema /\ [][NextSchema]_vars

----------------------------------------------------------------------------
(* Properties of url_join *)

EndsWithSlash(s) == s # <<>> /\ s[Len(s)] = "/"

\* r followed by the path segments of p (its non-empty names, so without
\* its leading "/"), one "/" between r and the first of them.
PathFollowedBy(r, p) ==
    LET names == SelectSeq(Split(Drop(p, 1), "/"), LAMBDA n : n # <<>>)
    IN IF names = <<>> THEN r
       ELSE IF EndsWithSlash(r) THEN r \o JoinSlash(names)
       ELSE r \o <<"/">> \o JoinSlash(names)

\* C4: url_join(R, P) keeps R's scheme, host, authentication info and query,
\* and its path is R's path followed by P's path segments without P's
\* leading root marker, also when R's path is "/" or ends with a slash and
\* when P's path ends with a slash.
C4_JoinKeepsRootAppendsPath ==
    (op = "url_join" /\ done) =>
        /\ joined.scheme = url1.scheme
        /\ joined.host = url1.host
        /\ joined.userinfo = url1.userinfo
        /\ joined.hasQuery = url1.hasQuery
        /\ joined.query = url1.query
        /\ joined.path = PathFollowedBy(url1.path, url2.path)

----------------------------------------------------------------------------
(* Properties of replace_vars *)

\* Every binding applied in turn to the string the previous ones produced.
RECURSIVE Cumulative(_, _)
Cumulative(s, vs) ==
    IF vs = <<>> THEN s
    ELSE Cumulative(StrReplace(s, Placeholder(Head(vs)[1]), Head(vs)[2]), Tail(vs))

\* C3: with several bindings replace_vars applies them cumulatively: each
\* replacement works on the string the previous replacements produced, so
\* every bound placeholder of the url is replaced and none is lost.
C3_BindingsCumulative ==
    (op = "replace_vars" /\ done) =>
        replaced = UrlParse(Cumulative(to_string(url), bindings))

\* The text of a template in which the holes called name hold value and the
\* other holes stay encoded placeholders.
FilledPiece(p, name, value) ==
    IF ~p.ph THEN p.text
    ELSE IF p.text = name THEN value
    ELSE Placeholder(p.text)
FilledSeg(seg, name, value) ==
    Flatten([i \in 1..Len(seg) |-> FilledPiece(seg[i], name, value)])
Filled(t, name, value) ==
    <<"https", "", "h", "/">>
        \o JoinSlash([i \in 1..Len(t) |-> FilledSeg(t[i], name, value)])

HolesNamed(t, name) ==
    {<<i, k>> \in (1..Len(t)) \X (1..2) :
        k <= Len(t[i]) /\ t[i][k].ph /\ t[i][k].text = name}

\* Characters Url::parse neither encodes nor reads as structure.
PlainChars == {"4", "2", "7", "a", "b"}
IsPlain(v) == \A i \in 1..Len(v) : v[i] \in PlainChars

----------------------------------------------------------------------------
(* Properties of ping_url *)

Returned == pc \in {"returned", "done"}

IsGet405(r) == r.method = "GET" /\ r.ok /\ r.status = 405
PostSucceeded == Len(requests) = 2 /\ requests[2].ok /\ requests[2].status \in 200..299

\* C1: a run of ping_url issues exactly one GET, first; it issues a POST, to
\* the same url, if and only if the GET returned a response with status 405;
\* never more than one GET or one POST; and when the POST returns 2xx with a
\* JSON body, ping_url returns that body.
C1_GetThenPostOnlyOn405 ==
    /\ Len(requests) <= 2
    /\ \A i \in 1..Len(requests) : requests[i].url = endpoint_url
    /\ Len(requests) >= 1 => requests[1].method = "GET"
    /\ Len(requests) = 2 => requests[2].method = "POST" /\ IsGet405(requests[1])
    /\ Returned => /\ Len(requests) >= 1
                   /\ IsGet405(requests[1]) => Len(requests) = 2
    /\ (Returned /\ PostSucceeded /\ body # NotJson) => ping = Ok(body)

\* A run that fell back to POST and returned the body the POST delivered.
C1_Witness ==
    /\ pc = "done" /\ Len(requests) = 2 /\ PostSucceeded
    /\ ping.ok /\ ping.json = body /\ IsObject(body)

PostFailed == Returned /\ Len(requests) = 2 /\ ~PostSucceeded

\* C2 (as stated): when the GET returned 405 and the POST returned a
\* non-success status or failed in transport, ping_url returns
\* UnresponsiveEndpoint in both cases.
C2_PostFailureUnresponsive ==
    PostFailed => ping = Err("UnresponsiveEndpoint", endpoint_url)

\* C2 (amended): a POST with a non-success status gives UnresponsiveEndpoint
\* of the url; a POST that fails in transport gives RequestError.
C2_PostFailureByKind ==
    PostFailed =>
        /\ requests[2].ok => ping = Err("UnresponsiveEndpoint", endpoint_url)
        /\ ~requests[2].ok => (~ping.ok /\ ping.err = "RequestError")

\* A run whose POST failed in transport.
C2_Witness ==
    /\ pc = "done" /\ Len(requests) = 2 /\ IsGet405(requests[1])
    /\ ~requests[2].ok /\ ping.err = "RequestError"

----------------------------------------------------------------------------
(* Properties of get_ids *)

StringField(v, f) == v.k = "object" /\ HasKey(v, f) /\ Get(v, f).k = "string"

\* The fields of an element that hold a string, in priority order.
Candidates(v) ==
    SelectSeq(<<"id", "variantInternalId", "cohortId">>, LAMBDA f : StringField(v, f))

HasField(v, f, kind) == v.k = "object" /\ HasKey(v, f) /\ Get(v, f).k = kind

\* response.resultSets[].results[] is there with the right JSON types.
WellShaped(j) ==
    /\ HasField(j, "response", "object")
    /\ HasField(Get(j, "response"), "resultSets", "array")
    /\ \A i \in 1..Len(Get(Get(j, "response"), "resultSets").items) :
          HasField(Get(Get(j, "response"), "resultSets").items[i].val, "results", "array")

\* The results elements in document order.
AllResults(j) ==
    LET sets == Get(Get(j, "response"), "resultSets").items
    IN Flatten([i \in 1..Len(sets) |-> Elements(Get(sets[i].val, "results"))])

Probed == pc = "done" /\ ping.ok

\* C5: for a probed response of the shape response.resultSets[].results[]
\* get_ids returns one identifier per results element, in document order,
\* each the element's string id, else its string variantInternalId, else its
\* string cohortId.
C5_OneIdPerResultInOrder ==
    (/\ Probed /\ WellShaped(ping.json)
     /\ \A i \in 1..Len(AllResults(ping.json)) :
            Candidates(AllResults(ping.json)[i]) # <<>>) =>
        /\ ~ids.panic
        /\ ids.ids = [i \in 1..Len(AllResults(ping.json)) |->
                        LET e == AllResults(ping.json)[i]
                        IN Get(e, Head(Candidates(e))).s]

\* Two non-empty result sets, three identifiers, one of them from a fallback
\* field.
C5_Witness ==
    /\ Probed /\ WellShaped(ping.json) /\ ~ids.panic
    /\ Len(ids.ids) = 3
    /\ Len(Get(Get(ping.json, "response"), "resultSets").items) = 2
    /\ \A i \in 1..2 :
          Len(Get(Get(Get(ping.json, "response"), "resultSets").items[i].val,
                  "results").items) >= 1
    /\ \E i \in 1..3 : Head(Candidates(AllResults(ping.json)[i])) # "id"

\* C6: when the probe succeeds but the top level is no object, or response,
\* resultSets or some result set's results is absent or of the wrong type,
\* get_ids returns no list: the call panics.
C6_MalformedShapePanics ==
    (Probed /\ ~WellShaped(ping.json)) => ids.panic

\* A response whose second result set lacks a results array, after a first
\* one that yields an identifier.
C6_Witness ==
    /\ Probed /\ ids.panic
    /\ HasField(ping.json, "response", "object")
    /\ HasField(Get(ping.json, "response"), "resultSets", "array")
    /\ LET sets == Get(Get(ping.json, "response"), "resultSets").items
       IN /\ Len(sets) = 2
          /\ HasField(sets[1].val, "results", "array")
          /\ Len(Get(sets[1].val, "results").items) >= 1
          /\ \A i \in 1..Len(Get(sets[1].val, "results").items) :
                Candidates(Get(sets[1].val, "results").items[i].val) # <<>>
          /\ ~HasField(sets[2].val, "results", "array")

ErrorKinds == {"UnresponsiveEndpoint", "RequestError", "BadStatus", "ResponseIsNotJson"}

\* C7: whenever the probe fails, with whichever error kind, get_ids returns
\* an empty Vec and neither panics nor hands the error on.
C7_ProbeFailureGivesEmpty ==
    (pc = "done" /\ ~ping.ok) =>
        (ping.err \in ErrorKinds /\ ~ids.panic /\ ids.ids = <<>>)

\* A probe that failed after the fallback POST, answered by an empty Vec.
C7_Witness ==
    /\ pc = "done" /\ ~ping.ok /\ Len(requests) = 2
    /\ ping.err = "UnresponsiveEndpoint" /\ ids = Vec(<<>>)

\* C10: if some results element of a well-shaped probed response has none of
\* id, variantInternalId, cohortId as a string, get_ids returns no list at
\* all: the call panics.
C10_MissingIdentifierPanics ==
    (/\ Probed /\ WellShaped(ping.json)
     /\ \E i \in 1..Len(AllResults(ping.json)) :
            Candidates(AllResults(ping.json)[i]) = <<>>) =>
        ids.panic

\* An element without identifier that follows elements with one.
C10_Witness ==
    /\ Probed /\ WellShaped(ping.json) /\ ids.panic
    /\ Len(AllResults(ping.json)) = 3
    /\ Candidates(AllResults(ping.json)[1]) # <<>>
    /\ Candidates(AllResults(ping.json)[2]) # <<>>
    /\ Candidates(AllResults(ping.json)[3]) = <<>>

----------------------------------------------------------------------------
(* Properties of valid_schema *)

\* p occurs in s as a run of consecutive elements.
Occurs(p, s) == \E i \in 0..(Len(s) - Len(p)) : SubSeq(s, i + 1, i + Len(p)) = p

Invalid == op = "valid_schema" /\ done /\ errors # <<>>

====
